---- MODULE Spec2Model ----
(***************************************************************************)
(* FinSight backend (src/backend/app.py): the Telegram webhook, its        *)
(* command router and handlers, the Supabase gateway and the local         *)
(* message log, as a state machine.                                        *)
(*                                                                         *)
(* Text is a sequence of one-character strings, so that tokenizing,        *)
(* lower-casing, amount parsing and currency formatting are computed as    *)
(* the code computes them.  A float is an exact decimal [m, e] = m/10^e;   *)
(* the inputs carry only values a binary float represents exactly, and the *)
(* percentages are computed with the rounding of binary floats.            *)
(*                                                                         *)
(* Spec is the webhook; SpecLog adds the GET /messages endpoint beside it; *)
(* SpecParse runs parse_amount alone over bounded texts.                   *)
(***************************************************************************)
EXTENDS Integers, Sequences, FiniteSets, TLC

\* ------------------------------------------------------------------ text

Glyph == "₹"
Digit == {"0", "1", "2", "3", "4", "5", "6", "7", "8", "9"}
Whitespace == {" ", "\t", "\n"}
UpperLetters == <<"A", "B", "C", "D", "E", "F", "G", "H", "I", "J", "K", "L", "M",
                  "N", "O", "P", "Q", "R", "S", "T", "U", "V", "W", "X", "Y", "Z">>
LowerLetters == <<"a", "b", "c", "d", "e", "f", "g", "h", "i", "j", "k", "l", "m",
                  "n", "o", "p", "q", "r", "s", "t", "u", "v", "w", "x", "y", "z">>

\* str.lower(), one character
LowerChar(c) ==
    IF \E i \in DOMAIN UpperLetters : UpperLetters[i] = c
    THEN LowerLetters[CHOOSE i \in DOMAIN UpperLetters : UpperLetters[i] = c]
    ELSE c

\* str.lower()
Lower(s) == [i \in DOMAIN s |-> LowerChar(s[i])]

\* str.strip(): leading and trailing whitespace removed
RECURSIVE LStrip(_)
LStrip(s) == IF s # <<>> /\ Head(s) \in Whitespace THEN LStrip(Tail(s)) ELSE s

RECURSIVE RStrip(_)
RStrip(s) ==
    IF s # <<>> /\ s[Len(s)] \in Whitespace THEN RStrip(SubSeq(s, 1, Len(s) - 1)) ELSE s

Strip(s) == RStrip(LStrip(s))

\* str.split(): the maximal runs of non-whitespace characters, in order
RECURSIVE SplitFrom(_, _, _)
SplitFrom(s, cur, acc) ==
    IF s = <<>> THEN (IF cur = <<>> THEN acc ELSE Append(acc, cur))
    ELSE IF Head(s) \in Whitespace
         THEN SplitFrom(Tail(s), <<>>, IF cur = <<>> THEN acc ELSE Append(acc, cur))
         ELSE SplitFrom(Tail(s), Append(cur, Head(s)), acc)

Split(s) == SplitFrom(s, <<>>, <<>>)

\* " ".join(words)
RECURSIVE JoinSpace(_)
JoinSpace(words) ==
    IF words = <<>> THEN <<>>
    ELSE IF Len(words) = 1 THEN words[1]
    ELSE words[1] \o <<" ">> \o JoinSpace(Tail(words))

\* str.replace(c, ""): every occurrence of the character removed
RECURSIVE RemoveChar(_, _)
RemoveChar(s, c) ==
    IF s = <<>> THEN <<>>
    ELSE IF Head(s) = c THEN RemoveChar(Tail(s), c)
    ELSE <<Head(s)>> \o RemoveChar(Tail(s), c)

\* ------------------------------------------------------------- decimals

DigitChars == <<"0", "1", "2", "3", "4", "5", "6", "7", "8", "9">>

DigitValue(c) == CHOOSE v \in 0..9 : DigitChars[v + 1] = c

RECURSIVE Pow10(_)
Pow10(e) == IF e = 0 THEN 1 ELSE 10 * Pow10(e - 1)

\* the integer a run of digits denotes
RECURSIVE DigitsValue(_)
DigitsValue(s) ==
    IF s = <<>> THEN 0 ELSE DigitsValue(SubSeq(s, 1, Len(s) - 1)) * 10 + DigitValue(s[Len(s)])

\* a float value m / 10^e, in lowest terms so that equal values are equal
RECURSIVE DecNorm(_)
DecNorm(d) ==
    IF d.e > 0 /\ d.m % 10 = 0 THEN DecNorm([m |-> d.m \div 10, e |-> d.e - 1]) ELSE d

DecZero == [m |-> 0, e |-> 0]

DecOfInt(n) == [m |-> n, e |-> 0]

DecAdd(a, b) ==
    LET e == IF a.e > b.e THEN a.e ELSE b.e
    IN  DecNorm([m |-> a.m * Pow10(e - a.e) + b.m * Pow10(e - b.e), e |-> e])

\* int(x): truncation toward zero (the values are never negative)
DecInt(d) == d.m \div Pow10(d.e)

\* ---------------------------------------------------------- parse_amount

None == [none |-> TRUE]

\* the longest prefix of s made of digits
RECURSIVE DigitRun(_)
DigitRun(s) ==
    IF s # <<>> /\ Head(s) \in Digit THEN <<Head(s)>> \o DigitRun(Tail(s)) ELSE <<>>

\* the match of \d+(\.\d+)? at the start of s (greedy), or <<>> when s does not
\* start with a digit
NumberAt(s) ==
    LET ip   == DigitRun(s)
        rest == SubSeq(s, Len(ip) + 1, Len(s))
        fp   == IF rest # <<>> /\ Head(rest) = "." THEN DigitRun(Tail(rest)) ELSE <<>>
    IN  IF ip = <<>> THEN <<>>
        ELSE IF fp = <<>> THEN ip
        ELSE ip \o <<".">> \o fp

\* re.search(r"(\d+(\.\d+)?)", s): the leftmost match, or <<>>
RECURSIVE FirstNumber(_)
FirstNumber(s) ==
    IF s = <<>> THEN <<>>
    ELSE IF NumberAt(s) # <<>> THEN NumberAt(s)
    ELSE FirstNumber(Tail(s))

\* float("digits[.digits]")
FloatOf(num) ==
    LET ip == DigitRun(num)
        fp == SubSeq(num, Len(ip) + 2, Len(num))
    IN  DecNorm([m |-> DigitsValue(ip \o fp), e |-> Len(fp)])

\* parse_amount without the search for an embedded number
parse_amount_whole_only(raw) ==
    IF raw = <<>> THEN None
    ELSE LET s == RemoveChar(RemoveChar(Strip(raw), Glyph), ",")
         IN  IF s # <<>> /\ NumberAt(s) = s THEN FloatOf(s)
             ELSE None

\* parse_amount(raw): the float of the stripped text without "₹" and ",", when it
\* is digits[.digits], else of the first such run in it, else None
parse_amount(raw) ==
    IF raw = <<>> THEN None
    ELSE LET s == RemoveChar(RemoveChar(Strip(raw), Glyph), ",")
         IN  IF s # <<>> /\ NumberAt(s) = s THEN FloatOf(s)
             ELSE IF FirstNumber(s) # <<>> THEN FloatOf(FirstNumber(s))
             ELSE None

\* --------------------------------------------------------- format_currency

\* the decimal digits of a natural number
RECURSIVE IntDigits(_)
IntDigits(n) ==
    IF n < 10 THEN <<DigitChars[n + 1]>>
    ELSE IntDigits(n \div 10) \o <<DigitChars[(n % 10) + 1]>>

\* the "," format option: a comma before every group of three digits
RECURSIVE GroupThousands(_)
GroupThousands(ds) ==
    IF Len(ds) <= 3 THEN ds
    ELSE GroupThousands(SubSeq(ds, 1, Len(ds) - 3)) \o <<",">>
         \o SubSeq(ds, Len(ds) - 2, Len(ds))

\* f"₹{int(x):,}" (the except branch needs a non-finite x, which no amount of
\* the bounded inputs is)
format_currency(x) == <<Glyph>> \o GroupThousands(IntDigits(DecInt(x)))

\* -------------------------------------------------------- the commands

\* the command literals the router compares the first token with
CmdStart == <<"/", "s", "t", "a", "r", "t">>
CmdHelp == <<"/", "h", "e", "l", "p">>
CmdAddIncome == <<"/", "a", "d", "d", "i", "n", "c", "o", "m", "e">>
CmdIncome == <<"/", "i", "n", "c", "o", "m", "e">>
CmdAddExpense == <<"/", "a", "d", "d", "e", "x", "p", "e", "n", "s", "e">>
CmdExpense == <<"/", "e", "x", "p", "e", "n", "s", "e">>
CmdSetBudget == <<"/", "s", "e", "t", "b", "u", "d", "g", "e", "t">>
CmdBudget == <<"/", "b", "u", "d", "g", "e", "t">>
CmdPortfolio == <<"/", "p", "o", "r", "t", "f", "o", "l", "i", "o">>
CmdStats == <<"/", "s", "t", "a", "t", "s">>
CmdLink == <<"/", "l", "i", "n", "k">>
CmdConsent == <<"/", "c", "o", "n", "s", "e", "n", "t">>
CmdExport == <<"/", "e", "x", "p", "o", "r", "t">>

KnownCommands ==
    {CmdStart, CmdHelp, CmdAddIncome, CmdIncome, CmdAddExpense, CmdExpense, CmdSetBudget,
     CmdBudget, CmdPortfolio, CmdStats, CmdLink, CmdConsent, CmdExport}

\* string literals of the handlers
Monthly == <<"m", "o", "n", "t", "h", "l", "y">>
Other == <<"o", "t", "h", "e", "r">>
Unnamed == <<"u", "n", "n", "a", "m", "e", "d">>
Unknown == <<"u", "n", "k", "n", "o", "w", "n">>
AiAdvice == <<"a", "i", "_", "a", "d", "v", "i", "c", "e">>
Telegram == <<"t", "e", "l", "e", "g", "r", "a", "m">>
ConsentYes == {<<"y", "e", "s">>, <<"y">>, <<"1">>, <<"t", "r", "u", "e">>}
ConsentNo == {<<"n", "o">>, <<"n">>, <<"0">>, <<"f", "a", "l", "s", "e">>}


\* ------------------------------------------------------- program constants

IncomeLimit == 50
ExpenseLimit == 5
BudgetLimit == 100
BudgetExpenseLimit == 1000
PortfolioLimit == 50
StatsIncomeLimit == 50
StatsExpenseLimit == 1000
ExportLimit == 500
PreviewLines == 10

\* ticks of the clock in one calendar month
MonthLen == 4

\* ---------------------------------------------------- handler results

NoQuery == [table |-> "none"]

\* supabase_select's arguments: the table, the telegram_id=eq. filter, the optional
\* created_at=gte. filter (-1: none), the selected columns and the limit
Query(table, sender, since, cols, limit) ==
    [table |-> table, sender |-> sender, since |-> since, cols |-> cols, limit |-> limit]

\* background_tasks.add_task(supabase_insert, table, row)
InsertTask(table, row) == [op |-> "insert", table |-> table, row |-> row]

\* reply(msg): background_tasks.add_task(send_telegram_message, chat_id, msg); the
\* message is its literal text and the values formatted into it
Reply(text, a) == [op |-> "send", text |-> text, a |-> a]

\* the handler returned {"ok": True} having scheduled these tasks
Ret(tasks) == [out |-> "return", tasks |-> tasks, q |-> NoQuery]

\* the handler is suspended in `await supabase_select(...)`
Await(q) == [out |-> "await", tasks |-> <<>>, q |-> q]

\* an exception left the handler body
Raise == [out |-> "raise", tasks |-> <<>>, q |-> NoQuery]

RECURSIVE SumAmounts(_)
SumAmounts(rows) ==
    IF rows = <<>> THEN DecZero ELSE DecAdd(rows[1].amount, SumAmounts(Tail(rows)))

\* max(a - b, 0)
DecSubFloor(a, b) ==
    LET e  == IF a.e > b.e THEN a.e ELSE b.e
        am == a.m * Pow10(e - a.e)
        bm == b.m * Pow10(e - b.e)
    IN  IF am > bm THEN DecNorm([m |-> am - bm, e |-> e]) ELSE DecZero

\* ---- binary floating point: a / b and x * 100 of the percent lines are
\* float operations, each rounded to MantissaBits binary digits (ties to even).
\* A float is [bits, exp]: its mantissa, MantissaBits binary digits that start
\* with 1, and the power of two that scales it.  Long numbers are worked on in
\* limbs of LimbBits binary digits.

MantissaBits == 53
LimbBits == 13
WordBits == 31

\* the w binary digits of a natural number below 2^w, the most significant first
Bits(n, w) == [i \in 1..w |-> (n \div 2^(w - i)) % 2]

\* the number a sequence of at most WordBits binary digits writes
RECURSIVE BitsValue(_)
BitsValue(bits) ==
    IF bits = <<>> THEN 0
    ELSE IF Len(bits) = 1 THEN bits[1]
    ELSE LET h == Len(bits) \div 2
         IN  BitsValue(SubSeq(bits, 1, h)) * 2^(Len(bits) - h)
             + BitsValue(SubSeq(bits, h + 1, Len(bits)))

\* the binary digits of a sequence of limbs
LimbDigits(limbs) ==
    [i \in 1..(LimbBits * Len(limbs)) |->
        Bits(limbs[((i - 1) \div LimbBits) + 1], LimbBits)[((i - 1) % LimbBits) + 1]]

\* the limbs of a sequence of binary digits whose length is a multiple of LimbBits
Limbs(digits) ==
    [k \in 1..(Len(digits) \div LimbBits) |->
        BitsValue(SubSeq(digits, (k - 1) * LimbBits + 1, k * LimbBits))]

\* the next n limbs of r / d (r < d) and the remainder after them
RECURSIVE FractionLimbs(_, _, _, _)
FractionLimbs(r, d, n, acc) ==
    IF n = 0 THEN [limbs |-> acc, rem |-> r]
    ELSE FractionLimbs((r * 2^LimbBits) % d, d, n - 1, Append(acc, (r * 2^LimbBits) \div d))

\* the digits from the first one on (there is a one)
FromFirstOne(digits) ==
    LET f == CHOOSE i \in DOMAIN digits : digits[i] = 1 /\ \A j \in 1..(i - 1) : digits[j] = 0
    IN  SubSeq(digits, f, Len(digits))

\* bits + 1; the carry out of the first digit lengthens the sequence
Increment(bits) ==
    IF \A i \in DOMAIN bits : bits[i] = 1 THEN <<1>> \o [i \in DOMAIN bits |-> 0]
    ELSE LET k == CHOOSE i \in DOMAIN bits :
                      bits[i] = 0 /\ \A j \in (i + 1)..Len(bits) : bits[j] = 1
         IN  [i \in DOMAIN bits |-> IF i < k THEN bits[i] ELSE IF i = k THEN 1 ELSE 0]

\* round to nearest, ties to even: digits (at least MantissaBits + 1 of them, the
\* first a one) scaled by 2^exp, with `sticky` telling of a nonzero rest below them
RoundFloat(digits, exp, sticky) ==
    LET n     == Len(digits)
        mant  == SubSeq(digits, 1, MantissaBits)
        guard == digits[MantissaBits + 1]
        rest  == sticky \/ \E i \in (MantissaBits + 2)..n : digits[i] = 1
        up    == guard = 1 /\ (rest \/ mant[MantissaBits] = 1)
        e     == exp + (n - MantissaBits)
        inc   == Increment(mant)
    IN  IF ~up THEN [bits |-> mant, exp |-> e]
        ELSE IF Len(inc) > MantissaBits
        THEN [bits |-> SubSeq(inc, 1, MantissaBits), exp |-> e + 1]
        ELSE [bits |-> inc, exp |-> e]

\* the float a / b for integers 0 < a < 2^WordBits and 0 < b < 2^(WordBits - LimbBits)
FloatDiv(a, b) ==
    LET f == FractionLimbs(a % b, b, 6, <<>>)
    IN  RoundFloat(FromFirstOne(Bits(a \div b, WordBits) \o LimbDigits(f.limbs)),
                   -(6 * LimbBits), f.rem # 0)

\* limbs * c for a small natural c, limb by limb from the last; the carry out of
\* the first limb is a limb of its own
RECURSIVE TimesSmall(_, _, _)
TimesSmall(limbs, c, carry) ==
    IF limbs = <<>> THEN <<carry>>
    ELSE LET t == limbs[Len(limbs)] * c + carry
         IN  TimesSmall(SubSeq(limbs, 1, Len(limbs) - 1), c, t \div 2^LimbBits)
             \o <<t % 2^LimbBits>>

\* the float x * c for a natural 0 < c < 2^LimbBits
FloatMul(x, c) ==
    LET pad    == (LimbBits - (MantissaBits % LimbBits)) % LimbBits
        limbs  == Limbs([i \in 1..pad |-> 0] \o x.bits)
        digits == LimbDigits(TimesSmall(limbs, c, 0))
    IN  RoundFloat(FromFirstOne(digits) \o <<0>>, x.exp - 1, FALSE)

\* int(x) for a float 0 <= x < 2^WordBits
FloatInt(x) ==
    IF x.exp >= 0 THEN BitsValue(x.bits) * 2^x.exp
    ELSE IF MantissaBits + x.exp <= 0 THEN 0
    ELSE BitsValue(SubSeq(x.bits, 1, MantissaBits + x.exp))

\* int((a / b) * 100) for integers a >= 0 and b > 0
FloatPercent(a, b) ==
    IF a = 0 THEN 0
    ELSE LET quotient == CHOOSE x \in {FloatDiv(a, b)} : TRUE
             product  == CHOOSE x \in {FloatMul(quotient, 100)} : TRUE
         IN  FloatInt(product)

\* int((a / b) * 100) for b > 0: both floats hold their decimals exactly, so
\* a / b is the float nearest to the quotient of the decimals
DecPercent(a, b) ==
    LET e == IF a.e > b.e THEN a.e ELSE b.e
    IN  FloatPercent(a.m * Pow10(e - a.e), b.m * Pow10(e - b.e))

\* ----------------------------------------------------------- handlers

StartReply ==
    Reply("Welcome to FinSight! I can store your income/expenses and show quick stats.\nUse /help to see commands.\nFor detailed visual advice, open your dashboard: {}",
          <<"<dashboard link>">>)

\* (the dashes of the source text are written - here)
HelpReply ==
    Reply("/income - show your incomes\n/addincome <amount> [frequency] [desc]\n/expense - show recent expenses\n/addexpense <amount> <category> [note]\n/budget - show budgets\n/setbudget <category> <limit>\n/portfolio - show portfolios\n/stats - quick savings/budget heuristics\n/link - get dashboard link\n/consent - opt-in/out for AI consultant\n/export - get CSV of recent transactions\n",
          <<>>)

LinkReply == Reply("Open your dashboard: {}", <<"<dashboard-url>">>)

NotRecognizedReply == Reply("Command not recognized. Use /help to see available commands.", <<>>)

ErrorReply == Reply("An error occurred while processing your command.", <<>>)

HandleAddIncome(args, sender, now) ==
    IF Len(args) < 1
    THEN Ret(<<Reply("Usage: /addincome <amount> [frequency] [description]", <<>>)>>)
    ELSE LET amount == parse_amount(args[1])
         IN  IF amount = None
             THEN Ret(<<Reply("Could not parse amount. Usage: /addincome 50000 monthly salary", <<>>)>>)
             ELSE LET frequency == IF Len(args) >= 2 THEN args[2] ELSE Monthly
                      desc == IF Len(args) >= 3 THEN JoinSpace(SubSeq(args, 3, Len(args)))
                              ELSE <<>>
                  IN  Ret(<<InsertTask("incomes",
                                       [telegram_id |-> sender, amount |-> amount,
                                        frequency |-> frequency, description |-> desc,
                                        created_at |-> now]),
                            Reply("Added income {} ({})",
                                  <<format_currency(amount), frequency>>)>>)

HandleIncome(sender, sel) ==
    IF Len(sel) = 0
    THEN Await(Query("incomes", sender, -1, {"amount", "frequency", "description"},
                     IncomeLimit))
    ELSE LET rows == sel[1].rows
         IN  IF rows = <<>>
             THEN Ret(<<Reply("No incomes found. Add one with /addincome <amount> monthly salary", <<>>)>>)
             ELSE IF sel[1].bad THEN Raise
             ELSE Ret(<<Reply("Your incomes:\n{lines}\n\nTotal monthly (approx): {}",
                              <<[i \in DOMAIN rows |->
                                    <<format_currency(rows[i].amount), rows[i].frequency,
                                      rows[i].description>>],
                                format_currency(SumAmounts(rows))>>)>>)

\* HandleAddExpense with an amount that does not parse written as zero
HandleAddExpenseZeroAmount(args, sender, now) ==
    IF Len(args) < 2
    THEN Ret(<<Reply("Usage: /addexpense <amount> <category> [note]", <<>>)>>)
    ELSE LET amount == IF parse_amount(args[1]) = None THEN DecZero ELSE parse_amount(args[1])
         IN  Ret(<<InsertTask("expenses",
                              [telegram_id |-> sender, amount |-> amount,
                               category |-> args[2], note |-> <<>>, created_at |-> now]),
                   Reply("Added expense {} ({})", <<format_currency(amount), args[2]>>)>>)

\* HandleAddExpense with the note left out of the record
HandleAddExpenseNoNote(args, sender, now) ==
    IF Len(args) < 2
    THEN Ret(<<Reply("Usage: /addexpense <amount> <category> [note]", <<>>)>>)
    ELSE LET amount == parse_amount(args[1])
         IN  IF amount = None
             THEN Ret(<<Reply("Could not parse amount. Usage: /addexpense 250 food lunch", <<>>)>>)
             ELSE Ret(<<InsertTask("expenses",
                                   [telegram_id |-> sender, amount |-> amount,
                                    category |-> args[2], note |-> <<>>,
                                    created_at |-> now]),
                        Reply("Added expense {} ({})",
                              <<format_currency(amount), args[2]>>)>>)

\* HandleExpense that records each listing as an expense of zero
HandleExpenseRecording(sender, sel) ==
    IF Len(sel) = 0
    THEN Await(Query("expenses", sender, -1, {"amount", "category", "note", "created_at"},
                     ExpenseLimit))
    ELSE Ret(<<InsertTask("expenses",
                          [telegram_id |-> sender, amount |-> DecZero, category |-> Other,
                           note |-> <<>>, created_at |-> 0]),
               Reply("No expenses recorded. Add one with /addexpense 250 food lunch", <<>>)>>)

HandleAddExpense(args, sender, now) ==
    IF Len(args) < 2
    THEN Ret(<<Reply("Usage: /addexpense <amount> <category> [note]", <<>>)>>)
    ELSE LET amount == parse_amount(args[1])
         IN  IF amount = None
             THEN Ret(<<Reply("Could not parse amount. Usage: /addexpense 250 food lunch", <<>>)>>)
             ELSE LET category == args[2]
                      note == IF Len(args) >= 3 THEN JoinSpace(SubSeq(args, 3, Len(args)))
                              ELSE <<>>
                  IN  Ret(<<InsertTask("expenses",
                                       [telegram_id |-> sender, amount |-> amount,
                                        category |-> category, note |-> note,
                                        created_at |-> now]),
                            Reply("Added expense {} ({})",
                                  <<format_currency(amount), category>>)>>)

HandleExpense(sender, sel) ==
    IF Len(sel) = 0
    THEN Await(Query("expenses", sender, -1, {"amount", "category", "note", "created_at"},
                     ExpenseLimit))
    ELSE LET rows == sel[1].rows
         IN  IF rows = <<>>
             THEN Ret(<<Reply("No expenses recorded. Add one with /addexpense 250 food lunch", <<>>)>>)
             ELSE IF sel[1].bad THEN Raise
             ELSE Ret(<<Reply("Recent expenses:\n{lines}\n\nTotal (last {}): {}",
                              <<[i \in DOMAIN rows |->
                                    <<format_currency(rows[i].amount), rows[i].category,
                                      rows[i].note>>],
                                Len(rows),
                                format_currency(SumAmounts(rows))>>)>>)

HandleSetBudget(args, sender, now) ==
    IF Len(args) < 2
    THEN Ret(<<Reply("Usage: /setbudget <category> <monthly_limit>", <<>>)>>)
    ELSE LET category == args[1]
             limit_amount == parse_amount(args[2])
         IN  IF limit_amount = None
             THEN Ret(<<Reply("Could not parse limit amount. Example: /setbudget food 5000", <<>>)>>)
             ELSE Ret(<<InsertTask("budgets",
                                   [telegram_id |-> sender, category |-> category,
                                    monthly_limit |-> limit_amount, created_at |-> now]),
                        Reply("Set budget for {} = {} / month",
                              <<category, format_currency(limit_amount)>>)>>)


\* month_start: the first instant of the month of `now`
MonthStart(now) == (now \div MonthLen) * MonthLen

\* usage[cat]: the sum of the fetched expenses whose category (or "other") is cat
RECURSIVE UsageOf(_, _)
UsageOf(expenses, cat) ==
    IF expenses = <<>> THEN DecZero
    ELSE LET e == expenses[1]
             c == IF e.category = <<>> THEN Other ELSE e.category
         IN  IF c = cat THEN DecAdd(e.amount, UsageOf(Tail(expenses), cat))
             ELSE UsageOf(Tail(expenses), cat)

HandleBudget(sender, sel, now) ==
    IF Len(sel) = 0
    THEN Await(Query("budgets", sender, -1, {"category", "monthly_limit"}, BudgetLimit))
    ELSE IF sel[1].rows = <<>>
    THEN Ret(<<Reply("No budgets set. Use /setbudget <category> <limit>", <<>>)>>)
    ELSE IF Len(sel) = 1
    THEN Await(Query("expenses", sender, MonthStart(now), {"amount", "category"},
                     BudgetExpenseLimit))
    ELSE IF sel[1].bad \/ sel[2].bad THEN Raise
    ELSE LET budgets == sel[1].rows
             expenses == sel[2].rows
             Line(b) ==
                 LET used == UsageOf(expenses, b.category)
                     pct  == IF b.monthly_limit.m > 0
                             THEN DecPercent(used, b.monthly_limit) ELSE 0
                 IN  <<b.category, format_currency(used),
                       format_currency(b.monthly_limit), pct>>
         IN  Ret(<<Reply("Budgets:\n{lines}",
                         <<[i \in DOMAIN budgets |-> Line(budgets[i])]>>)>>)

RECURSIVE SumValues(_)
SumValues(holdings) ==
    IF holdings = <<>> THEN DecZero ELSE DecAdd(holdings[1], SumValues(Tail(holdings)))

HandlePortfolio(sender, sel) ==
    IF Len(sel) = 0
    THEN Await(Query("portfolios", sender, -1, {"id", "name", "data"}, PortfolioLimit))
    ELSE LET rows == sel[1].rows
         IN  IF rows = <<>>
             THEN Ret(<<Reply("No portfolios stored. Add via the app dashboard.", <<>>)>>)
             ELSE IF sel[1].bad THEN Raise
             ELSE Ret(<<Reply("Portfolios:\n{lines}",
                              <<[i \in DOMAIN rows |->
                                    <<IF rows[i].name = <<>> THEN Unnamed ELSE rows[i].name,
                                      format_currency(SumValues(rows[i].data))>>]>>)>>)

HandleStats(sender, sel) ==
    IF Len(sel) = 0
    THEN Await(Query("incomes", sender, -1, {"amount", "frequency"}, StatsIncomeLimit))
    ELSE IF Len(sel) = 1
    THEN Await(Query("expenses", sender, -1, {"amount"}, StatsExpenseLimit))
    ELSE IF sel[1].rows # <<>> /\ sel[1].bad THEN Raise
    ELSE IF sel[2].rows # <<>> /\ sel[2].bad THEN Raise
    ELSE LET total_income == SumAmounts(sel[1].rows)
             total_expenses == SumAmounts(sel[2].rows)
             savings == DecSubFloor(total_income, total_expenses)
         IN  IF total_income = DecZero
             THEN Ret(<<Reply("No income recorded. Add one with /addincome <amount> monthly salary", <<>>)>>)
             ELSE Ret(<<Reply("Estimated savings: {} ({}% of income). Suggested target: 20% (50/30/20 heuristic).",
                              <<format_currency(savings),
                                DecPercent(savings, total_income)>>)>>)

\* HandleConsent without the lower-casing of the argument
HandleConsentCaseSensitive(args, sender, now) ==
    LET opt == IF args # <<>> THEN args[1] ELSE <<>>
        val == IF opt \in ConsentYes THEN "True"
               ELSE IF opt \in ConsentNo THEN "False" ELSE "None"
    IN  IF val = "None"
        THEN Ret(<<Reply("Usage: /consent yes|no\nExample: /consent yes (to allow detailed AI advice)", <<>>)>>)
        ELSE Ret(<<InsertTask("consents",
                              [telegram_id |-> sender, consented |-> (val = "True"),
                               scope |-> AiAdvice, created_at |-> now]),
                   Reply("Consent set to: {}", <<val>>)>>)

HandleConsent(args, sender, now) ==
    LET opt == IF args # <<>> THEN Lower(args[1]) ELSE <<>>
        val == IF opt \in ConsentYes THEN "True"
               ELSE IF opt \in ConsentNo THEN "False" ELSE "None"
    IN  IF val = "None"
        THEN Ret(<<Reply("Usage: /consent yes|no\nExample: /consent yes (to allow detailed AI advice)", <<>>)>>)
        ELSE Ret(<<InsertTask("consents",
                              [telegram_id |-> sender, consented |-> (val = "True"),
                               scope |-> AiAdvice, created_at |-> now]),
                   Reply("Consent set to: {}", <<val>>)>>)

\* HandleExport replying with the whole CSV
HandleExportFull(sender, sel) ==
    IF Len(sel) = 0
    THEN Await(Query("expenses", sender, -1, {"amount", "category", "note", "created_at"},
                     ExportLimit))
    ELSE IF Len(sel) = 1
    THEN Await(Query("incomes", sender, -1,
                     {"amount", "frequency", "description", "created_at"}, ExportLimit))
    ELSE IF sel[1].rows # <<>> /\ sel[1].bad THEN Raise
    ELSE IF sel[2].rows # <<>> /\ sel[2].bad THEN Raise
    ELSE LET exps == sel[1].rows
             incs == sel[2].rows
             lines == <<"type,amount,category_or_freq,note_or_desc,created_at">>
                      \o [i \in DOMAIN exps |->
                             <<"expense", exps[i].amount, exps[i].category, exps[i].note,
                               exps[i].created_at>>]
                      \o [i \in DOMAIN incs |->
                             <<"income", incs[i].amount, incs[i].frequency,
                               incs[i].description, incs[i].created_at>>]
         IN  Ret(<<Reply("Generated CSV (preview):\n{preview}\n\nFull export available on dashboard.",
                         <<lines>>)>>)

\* /export: the expenses and the incomes of the sender as CSV lines, the first
\* PreviewLines of them in the reply
HandleExport(sender, sel) ==
    IF Len(sel) = 0
    THEN Await(Query("expenses", sender, -1, {"amount", "category", "note", "created_at"},
                     ExportLimit))
    ELSE IF Len(sel) = 1
    THEN Await(Query("incomes", sender, -1,
                     {"amount", "frequency", "description", "created_at"}, ExportLimit))
    ELSE IF sel[1].rows # <<>> /\ sel[1].bad THEN Raise
    ELSE IF sel[2].rows # <<>> /\ sel[2].bad THEN Raise
    ELSE LET exps == sel[1].rows
             incs == sel[2].rows
             lines == <<"type,amount,category_or_freq,note_or_desc,created_at">>
                      \o [i \in DOMAIN exps |->
                             <<"expense", exps[i].amount, exps[i].category, exps[i].note,
                               exps[i].created_at>>]
                      \o [i \in DOMAIN incs |->
                             <<"income", incs[i].amount, incs[i].frequency,
                               incs[i].description, incs[i].created_at>>]
             preview == SubSeq(lines, 1, IF Len(lines) < PreviewLines THEN Len(lines)
                                         ELSE PreviewLines)
         IN  Ret(<<Reply("Generated CSV (preview):\n{preview}\n\nFull export available on dashboard.",
                         <<preview>>)>>)

\* ------------------------------------------------------------- the router

\* the if-chain over cmd, and the fallback after it
Dispatch(cmd, args, sender, sel, now) ==
    IF cmd = CmdStart THEN Ret(<<StartReply>>)
    ELSE IF cmd = CmdHelp THEN Ret(<<HelpReply>>)
    ELSE IF cmd = CmdAddIncome THEN HandleAddIncome(args, sender, now)
    ELSE IF cmd = CmdIncome THEN HandleIncome(sender, sel)
    ELSE IF cmd = CmdAddExpense THEN HandleAddExpense(args, sender, now)
    ELSE IF cmd = CmdExpense THEN HandleExpense(sender, sel)
    ELSE IF cmd = CmdSetBudget THEN HandleSetBudget(args, sender, now)
    ELSE IF cmd = CmdBudget THEN HandleBudget(sender, sel, now)
    ELSE IF cmd = CmdPortfolio THEN HandlePortfolio(sender, sel)
    ELSE IF cmd = CmdStats THEN HandleStats(sender, sel)
    ELSE IF cmd = CmdLink THEN Ret(<<LinkReply>>)
    ELSE IF cmd = CmdConsent THEN HandleConsent(args, sender, now)
    ELSE IF cmd = CmdExport THEN HandleExport(sender, sel)
    ELSE Ret(<<NotRecognizedReply>>)

\* TryExcept with an except clause that only logs
TryExceptSilent(h) ==
    IF h.out = "raise" THEN Ret(h.tasks) ELSE h

\* TryExcept scheduling the generic reply after every handler
TryExceptFinally(h) ==
    IF h.out = "await" THEN h ELSE Ret(h.tasks \o <<ErrorReply>>)

\* the except clause: the exception is logged, the generic reply scheduled, and
\* {"ok": True} returned
TryExcept(h) ==
    IF h.out = "raise" THEN Ret(h.tasks \o <<ErrorReply>>) ELSE h

\* parts = text.strip().split()
Parts(text) == Split(Strip(text.chars))

\* Command without the lower-casing of the first token
CommandCaseSensitive(text) ==
    IF ~text.str \/ text.chars = <<>> THEN <<>>
    ELSE IF Len(Split(Strip(text.chars))) = 0 THEN <<>>
    ELSE Split(Strip(text.chars))[1]

\* cmd = parts[0].lower(), or <<>> when the webhook returns before it: no text,
\* text that is no string, or no token
Command(text) ==
    IF ~text.str \/ text.chars = <<>> THEN <<>>
    ELSE IF Len(Parts(text)) = 0 THEN <<>>
    ELSE Lower(Parts(text)[1])

\* args = parts[1:]
Arguments(text) == IF Command(text) = <<>> THEN <<>> ELSE Tail(Parts(text))

\* the webhook body after the tokenizer: the early return, or the command
\* handlers inside the try, run with the select results received so far
Router(cmd, args, sender, sel, now) ==
    IF cmd = <<>> THEN Ret(<<>>)
    ELSE TryExcept(Dispatch(cmd, args, sender, sel, now))

\* ------------------------------------------------------------ the bounds

\* webhook requests in one behaviour
MaxRequests == 2
\* expense records of user u1 the store holds when the process starts
PreExpenses == 5
\* income records of user u1 the store holds when the process starts
PreIncomes == 5

\* ----------------------------------------------------------- the inputs

\* message texts a chat user may send
TxStart == <<"/", "s", "t", "a", "r", "t">>
TxHelp == <<"/", "h", "e", "l", "p">>
TxLink == <<"/", "l", "i", "n", "k">>
TxAddIncomeNoArg == <<"/", "a", "d", "d", "i", "n", "c", "o", "m", "e">>
TxAddIncomeBad == <<"/", "a", "d", "d", "i", "n", "c", "o", "m", "e", " ", "a", "b", "c">>
TxAddIncome == <<"/", "a", "d", "d", "i", "n", "c", "o", "m", "e", " ", "₹", "5", "0", ",", "0", "0", "0", " ", "w", "e", "e", "k", "l", "y", " ", "b", "o", "n", "u", "s", " ", "p", "a", "y">>
TxAddIncomeDefault == <<"/", "a", "d", "d", "i", "n", "c", "o", "m", "e", " ", "1", ",", "2", "0", "0">>
TxIncome == <<"/", "i", "n", "c", "o", "m", "e">>
TxAddExpenseOneArg == <<"/", "a", "d", "d", "e", "x", "p", "e", "n", "s", "e", " ", "2", "5", "0">>
TxAddExpenseBad == <<"/", "a", "d", "d", "e", "x", "p", "e", "n", "s", "e", " ", "a", "b", "c", " ", "f", "o", "o", "d">>
TxAddExpense == <<"/", "a", "d", "d", "e", "x", "p", "e", "n", "s", "e", " ", "2", "5", "0", " ", "f", "o", "o", "d", " ", "l", "u", "n", "c", "h">>
TxAddExpenseLoose == <<" ", " ", "/", "A", "d", "d", "E", "x", "p", "e", "n", "s", "e", "\t", "2", ".", "5", " ", " ", "f", "o", "o", "d", " ", "\n">>
TxExpense == <<"/", "e", "x", "p", "e", "n", "s", "e">>
TxSetBudgetOneArg == <<"/", "s", "e", "t", "b", "u", "d", "g", "e", "t", " ", "f", "o", "o", "d">>
TxSetBudgetBad == <<"/", "s", "e", "t", "b", "u", "d", "g", "e", "t", " ", "f", "o", "o", "d", " ", "a", "b", "c">>
TxSetBudget == <<"/", "s", "e", "t", "b", "u", "d", "g", "e", "t", " ", "f", "o", "o", "d", " ", "5", "0", "0", "0">>
TxBudget == <<"/", "b", "u", "d", "g", "e", "t">>
TxPortfolio == <<"/", "p", "o", "r", "t", "f", "o", "l", "i", "o">>
TxStats == <<"/", "S", "T", "A", "T", "S">>
TxExport == <<"/", "e", "x", "p", "o", "r", "t">>
TxConsentNoArg == <<"/", "c", "o", "n", "s", "e", "n", "t">>
TxConsentMaybe == <<"/", "c", "o", "n", "s", "e", "n", "t", " ", "m", "a", "y", "b", "e">>
TxConsentYES == <<"/", "c", "o", "n", "s", "e", "n", "t", " ", "Y", "E", "S">>
TxConsentY == <<"/", "c", "o", "n", "s", "e", "n", "t", " ", "y">>
TxConsent1 == <<"/", "c", "o", "n", "s", "e", "n", "t", " ", "1">>
TxConsentTrue == <<"/", "c", "o", "n", "s", "e", "n", "t", " ", "T", "r", "u", "e">>
TxConsentNo == <<"/", "c", "o", "n", "s", "e", "n", "t", " ", "n", "o">>
TxConsentN == <<"/", "c", "o", "n", "s", "e", "n", "t", " ", "N">>
TxConsent0 == <<"/", "c", "o", "n", "s", "e", "n", "t", " ", "0">>
TxConsentFalse == <<"/", "c", "o", "n", "s", "e", "n", "t", " ", "f", "a", "l", "s", "e">>
TxHello == <<"h", "e", "l", "l", "o", " ", "t", "h", "e", "r", "e">>
TxUnknownCmd == <<"/", "f", "o", "o", " ", "2", "5", "0">>
TxBlank == <<" ", " ", "\t", " ">>

\* a from.id that is a string holding a query-string separator
Crafted == "u1&offset=0"

Users == {"u1", "u2", Crafted}

\* message.text: absent, a string, or (malformed payload) a JSON number
NoTextField == [has |-> FALSE, str |-> FALSE, chars |-> <<>>]
TextField(chars) == [has |-> TRUE, str |-> TRUE, chars |-> chars]
NumberField == [has |-> TRUE, str |-> FALSE, chars |-> <<"7">>]

\* a message object: from.id and chat.id ("" when absent) and its text field
Message(from, chat, text) == [from |-> from, chat |-> chat, text |-> text]

\* body.get("message") or body.get("edited_message") or {}
EmptyMessage == Message("", "", NoTextField)

U1(t) == Message("u1", "u1", TextField(t))
U2(t) == Message("u2", "u2", TextField(t))

\* the messages the users send, by subject
MenuIncome ==
    {U1(TxAddIncomeNoArg), U1(TxAddIncomeBad), U1(TxAddIncome), U2(TxAddIncomeDefault),
     U1(TxIncome), U2(TxIncome), U1(TxStats), U1(TxExport)}

MenuExpense ==
    {U1(TxAddExpenseOneArg), U1(TxAddExpenseBad), U1(TxAddExpenseLoose), U2(TxAddExpense),
     U1(TxExpense), U2(TxExpense), U1(TxExport),
     Message("", "u2", TextField(TxExpense)),       \* a channel post: no from
     Message(Crafted, Crafted, TextField(TxExpense))}

MenuBudget ==
    {U1(TxSetBudgetOneArg), U1(TxSetBudgetBad), U1(TxSetBudget), U1(TxBudget),
     U2(TxBudget), U1(TxAddExpense), U1(TxPortfolio), U2(TxPortfolio)}

MenuConsent ==
    {U1(TxConsentNoArg), U1(TxConsentMaybe), U1(TxConsentYES), U1(TxConsentY),
     U1(TxConsent1), U1(TxConsentTrue), U1(TxConsentNo), U1(TxConsentN), U1(TxConsent0),
     U1(TxConsentFalse)}

MenuOther ==
    {U1(TxStart), U1(TxHelp), U1(TxLink), U1(TxHello), U1(TxUnknownCmd), U1(TxBlank),
     U2(TxStats),
     Message("u1", "u1", NoTextField),         \* a photo: no text key
     Message("u1", "u1", TextField(<<>>)),     \* "text": ""
     Message("u1", "u1", NumberField),
     EmptyMessage}                             \* no message object at all

\* every message of the model
AllMessages == MenuIncome \cup MenuExpense \cup MenuBudget \cup MenuConsent \cup MenuOther

\* the messages of a conversation of several requests
TalkExpense == {U2(TxAddExpense), U2(TxExpense), U1(TxAddExpenseLoose), U1(TxExpense)}
TalkIncome == {U1(TxAddIncome), U1(TxIncome), U2(TxIncome), U1(TxStats)}
TalkBudget == {U1(TxSetBudget), U1(TxBudget), U1(TxAddExpense), U2(TxBudget)}
TalkOther == {U1(TxConsentYES), U1(TxConsentNo), U1(TxExport), U1(TxStart)}

\* the messages sent while the log is read
TalkLog == {U1(TxStart), U2(TxIncome)}

Talks == {"expense", "income", "budget", "other"}

\* the messages of the menu named m
MenuOf(m) ==
    IF m = "expense" THEN TalkExpense
    ELSE IF m = "income" THEN TalkIncome
    ELSE IF m = "budget" THEN TalkBudget
    ELSE IF m = "other" THEN TalkOther
    ELSE IF m = "log" THEN TalkLog
    ELSE AllMessages

\* the secret of the query string and of the header (<<>> when absent or empty)
Secret == <<"s", "3">>
Wrong == <<"x">>
SecretPairs ==
    {<<<<>>, <<>>>>, <<Secret, <<>>>>, <<Wrong, Secret>>, <<Wrong, Wrong>>, <<<<>>, Wrong>>}

\* the environment: WEBHOOK_SECRET, SUPABASE_URL/KEY and TELEGRAM_TOKEN set or not
Envs ==
    {[secret |-> Secret, supabase |-> TRUE, token |-> TRUE],
     [secret |-> <<>>, supabase |-> FALSE, token |-> FALSE]}

\* ------------------------------------------------------------- the store

Tables == {"messages", "incomes", "expenses", "budgets", "portfolios", "consents"}

Food == <<"f", "o", "o", "d">>
Rent == <<"r", "e", "n", "t">>

EmptyStore == [t \in Tables |-> <<>>]

\* a store with records of earlier runs: PreExpenses expenses of u1 (created at
\* 1, 2, ...) that sum to 71% of u1's PreIncomes incomes, a budget and a
\* portfolio of u1, and an expense of u2 that is 29% of u2's budget for its category
PreStore ==
    [EmptyStore EXCEPT
       !["expenses"] =
           [i \in 1..PreExpenses |->
               [telegram_id |-> "u1", amount |-> DecOfInt(142 * i),
                category |-> IF i % 2 = 1 THEN Food ELSE Rent,
                note |-> <<DigitChars[(i % 10) + 1]>>, created_at |-> i]]
           \o <<[telegram_id |-> "u2", amount |-> DecOfInt(29), category |-> Food,
                 note |-> <<>>, created_at |-> PreExpenses]>>,
       !["incomes"] =
           [i \in 1..PreIncomes |->
               [telegram_id |-> "u1", amount |-> DecOfInt(200 * i), frequency |-> Monthly,
                description |-> <<"p", "a", "y">>, created_at |-> i]],
       !["budgets"] =
           <<[telegram_id |-> "u1", category |-> Food, monthly_limit |-> DecOfInt(5000),
              created_at |-> 1],
             [telegram_id |-> "u2", category |-> Food, monthly_limit |-> DecOfInt(100),
              created_at |-> 1]>>,
       !["portfolios"] =
           <<[telegram_id |-> "u1", id |-> 1, name |-> <<>>,
              data |-> <<DecOfInt(1000), [m |-> 25005, e |-> 1]>>]>>]

\* result: what the last call of the read endpoint or of the amount parser returned
VARIABLES env, menu, quota, store, log, clock, req, result

vars == <<env, menu, quota, store, log, clock, req, result>>

\* nothing was called yet
NoResult == [op |-> "none"]

Slots == 1..MaxRequests

\* a request: where its handler stands (pc), the response status (0: none yet),
\* the message it carries (sender_id, chat_id and text are functions of it), the
\* requests answered before it arrived, the locals cmd and args, the select
\* results received, the pending query, the background tasks scheduled and the
\* outcomes of those that ran
IdleReq ==
    [pc |-> "idle", status |-> 0, msg |-> EmptyMessage, after |-> {}, cmd |-> <<>>,
     args |-> <<>>, sel |-> <<>>, q |-> NoQuery, sched |-> <<>>, ran |-> <<>>,
     logged |-> "none", now |-> 0]

Init ==
    /\ env \in Envs
    \* one request carrying any message, or a conversation of MaxRequests
    /\ \/ menu = "any" /\ quota = 1
       \/ menu \in Talks /\ quota = MaxRequests
    /\ store = PreStore
    /\ log = <<>>
    /\ clock = PreExpenses + 1
    /\ req = [r \in Slots |-> IdleReq]
    /\ result = NoResult

\* ------------------------------------------------------- supabase_select

\* the rows of a sequence at the indices of S, in order
RECURSIVE Pick(_, _, _)
Pick(rows, S, i) ==
    IF i > Len(rows) THEN <<>>
    ELSE IF i \in S THEN <<rows[i]>> \o Pick(rows, S, i + 1)
    ELSE Pick(rows, S, i + 1)

\* the value the store reads for the telegram_id filter: the URL is the
\* concatenation "...?select=..&telegram_id=eq.<sender_id>&limit=..", so the value
\* ends at the first "&" of the sender id
FilterValue(sender) == IF sender = Crafted THEN "u1" ELSE sender

\* the rows of the table that pass the filters of the query
Matching(q) ==
    SelectSeq(store[q.table],
              LAMBDA row : /\ row.telegram_id = FilterValue(q.sender)
                           /\ (q.since >= 0 => row.created_at >= q.since))

Project(row, cols) == [c \in cols |-> row[c]]

\* what a 200 response may hold: the query names no order, so with more matching
\* rows than the limit any `limit` of them, here in the order of the table
OkRows(q) ==
    LET m == Matching(q)
        n == IF Len(m) < q.limit THEN Len(m) ELSE q.limit
    IN  {[i \in 1..n |-> Project(Pick(m, S, 1)[i], q.cols)] :
            S \in {T \in SUBSET (1..Len(m)) : Cardinality(T) = n}}

\* the rows of a sequence in reverse order
Reversed(rows) == [i \in DOMAIN rows |-> rows[Len(rows) + 1 - i]]

\* supabase_select free to answer with the rows in reverse order
supabase_select_any_order(q) ==
    IF ~env.supabase THEN {[how |-> "unconfigured", bad |-> FALSE, rows |-> <<>>]}
    ELSE {[how |-> "ok", bad |-> FALSE, rows |-> rows] : rows \in OkRows(q)}
         \cup {[how |-> "ok", bad |-> FALSE, rows |-> Reversed(rows)] : rows \in OkRows(q)}
         \cup {[how |-> "error", bad |-> FALSE, rows |-> <<>>],
               [how |-> "malformed", bad |-> TRUE, rows |-> <<[not_a_mapping |-> TRUE]>>]}

\* supabase_select handing the body of a failed response to the caller
supabase_select_error_body(q) ==
    IF ~env.supabase THEN {[how |-> "unconfigured", bad |-> FALSE, rows |-> <<>>]}
    ELSE {[how |-> "ok", bad |-> FALSE, rows |-> rows] : rows \in OkRows(q)}
         \cup {[how |-> "error", bad |-> TRUE, rows |-> <<[not_a_mapping |-> TRUE]>>],
               [how |-> "malformed", bad |-> TRUE, rows |-> <<[not_a_mapping |-> TRUE]>>]}

\* what `await supabase_select(...)` may return: [] when the store is not
\* configured, on a status other than 200 and on an exception; else the parsed
\* JSON, which is the rows or (a malformed response) a list of non-mappings
supabase_select(q) ==
    IF ~env.supabase THEN {[how |-> "unconfigured", bad |-> FALSE, rows |-> <<>>]}
    ELSE {[how |-> "ok", bad |-> FALSE, rows |-> rows] : rows \in OkRows(q)}
         \cup {[how |-> "error", bad |-> FALSE, rows |-> <<>>],
               [how |-> "malformed", bad |-> TRUE, rows |-> <<[not_a_mapping |-> TRUE]>>]}

\* what a run of supabase_insert may end as: skipped (not configured), the row
\* stored (200/201, the body JSON or not), or not stored (another status, an
\* exception); it returns in every case
supabase_insert ==
    IF ~env.supabase THEN {"unconfigured"} ELSE {"stored", "not_stored"}

Stored(outcome) == outcome = "stored"

\* ------------------------------------------------------------ the webhook

\* text = msg.get("text", "") or json.dumps(msg); the dump of a message without
\* text is abridged to its braces and a key
JsonDumps(msg) ==
    IF msg = EmptyMessage THEN <<"{", "}">>
    ELSE <<"{", "\"", "c", "h", "a", "t", "\"", ":", " ", "{", "}", "}">>

Truthy(field) == field.has /\ (field.str => field.chars # <<>>)

ExtractText(msg) ==
    IF Truthy(msg.text) THEN [str |-> msg.text.str, chars |-> msg.text.chars]
    ELSE [str |-> TRUE, chars |-> JsonDumps(msg)]

\* sender_id = str(from.id or chat.id or "unknown")
SenderId(msg) ==
    IF msg.from # "" THEN msg.from ELSE IF msg.chat # "" THEN msg.chat ELSE "unknown"

\* the secret check: with WEBHOOK_SECRET set, one of the two must equal it
Authorized(qs, hs) ==
    env.secret # <<>> =>
        ((qs # <<>> /\ qs = env.secret) \/ (hs # <<>> /\ hs = env.secret))

\* the request after the handler ran as far as it can with the select results sel:
\* suspended in the next select, or returned {"ok": True} with its tasks scheduled
Advance(rq, sel, sched) ==
    LET h == Router(rq.cmd, rq.args, SenderId(rq.msg), sel, rq.now)
    IN  IF h.out = "await"
        THEN [rq EXCEPT !.pc = "await_select", !.sel = sel, !.q = h.q, !.sched = sched]
        ELSE [rq EXCEPT !.pc = "bg", !.status = 200, !.sel = sel, !.q = NoQuery,
                        !.sched = sched \o h.tasks]

\* the JSON value of the request body: an object, or a value that is none (an
\* array, a string, a number)
Bodies == {"object", "other"}

\* a request arrives. body.keys() of the debug print raises on a body that is no
\* object, which ends the request with 500 before the secret check; else the
\* secret check, the body parsed, and the handler suspended in the sqlite insert
Arrive(r, sp, body, msg) ==
    req' = [req EXCEPT ![r] =
              IF body # "object"
              THEN [IdleReq EXCEPT !.pc = "done", !.status = 500]
              ELSE IF ~Authorized(sp[1], sp[2])
              THEN [IdleReq EXCEPT !.pc = "done", !.status = 403]
              ELSE [IdleReq EXCEPT !.pc = "await_log", !.msg = msg,
                                   !.after = {p \in Slots : req[p].status = 200}]]

Receive(r) ==
    /\ req[r].pc = "idle"
    /\ r <= quota
    /\ \A p \in Slots : p < r => req[p].pc # "idle"
    /\ \E sp \in SecretPairs, body \in Bodies, msg \in MenuOf(menu) : Arrive(r, sp, body, msg)
    /\ UNCHANGED <<result, env, menu, quota, store, log, clock>>

\* the sqlite insert ends (committed, or an exception that is printed); the
\* messages row is scheduled and the router runs up to its first select
LogWriteFinish(r) ==
    /\ req[r].pc = "await_log"
    /\ \E ok \in BOOLEAN :
          LET text == ExtractText(req[r].msg)
              sender_id == SenderId(req[r].msg)
              rq == [req[r] EXCEPT !.logged = IF ok THEN "ok" ELSE "failed",
                                   !.now = clock,
                                   !.cmd = Command(text),
                                   !.args = Arguments(text)]
              sb_row == [platform |-> Telegram, sender |-> sender_id,
                         text |-> text, created_at |-> clock]
          IN  /\ log' = IF ok
                        THEN Append(log, [id |-> Len(log) + 1, platform |-> Telegram,
                                          sender |-> sender_id, text |-> text])
                        ELSE log
              /\ req' = [req EXCEPT ![r] =
                            Advance(rq, <<>>, <<InsertTask("messages", sb_row)>>)]
    /\ clock' = clock + 1
    /\ UNCHANGED <<result, env, menu, quota, store>>

\* the awaited select returns and the handler runs on
SelectFinish(r) ==
    /\ req[r].pc = "await_select"
    /\ \E res \in supabase_select(req[r].q) :
          req' = [req EXCEPT ![r] = Advance(req[r], Append(req[r].sel, res), req[r].sched)]
    /\ UNCHANGED <<result, env, menu, quota, store, log, clock>>

\* the next background task of a request that was answered
NextTask(r) == req[r].sched[Len(req[r].ran) + 1]

Ran(rq, outcome) ==
    [rq EXCEPT !.ran = Append(rq.ran, outcome),
               !.pc = IF Len(rq.ran) + 1 = Len(rq.sched) THEN "done" ELSE "bg"]

\* the table with the row added, but in place of an earlier budget of the same
\* sender and category when there is one
Upsert(rows, row) ==
    IF \E i \in DOMAIN rows : rows[i].telegram_id = row.telegram_id /\ rows[i].category = row.category
    THEN [i \in DOMAIN rows |->
            IF rows[i].telegram_id = row.telegram_id /\ rows[i].category = row.category
            THEN row ELSE rows[i]]
    ELSE Append(rows, row)

\* RunInsert with budgets written as "latest value wins"
RunInsertUpsert(r) ==
    /\ req[r].pc = "bg"
    /\ Len(req[r].ran) < Len(req[r].sched)
    /\ NextTask(r).op = "insert"
    /\ \E outcome \in supabase_insert :
          /\ store' = IF Stored(outcome)
                      THEN [store EXCEPT ![NextTask(r).table] =
                               IF NextTask(r).table = "budgets"
                               THEN Upsert(@, NextTask(r).row)
                               ELSE Append(@, NextTask(r).row)]
                      ELSE store
          /\ req' = [req EXCEPT ![r] = Ran(req[r], outcome)]
    /\ UNCHANGED <<result, env, menu, quota, log, clock>>

\* RunInsert with a failed insert raising out of the task runner, which drops
\* the tasks after it
RunInsertRaising(r) ==
    /\ req[r].pc = "bg"
    /\ Len(req[r].ran) < Len(req[r].sched)
    /\ NextTask(r).op = "insert"
    /\ \E outcome \in supabase_insert :
          /\ store' = IF Stored(outcome)
                      THEN [store EXCEPT ![NextTask(r).table] = Append(@, NextTask(r).row)]
                      ELSE store
          /\ req' = [req EXCEPT ![r] =
                        IF Stored(outcome) THEN Ran(req[r], outcome)
                        ELSE [Ran(req[r], outcome) EXCEPT !.pc = "done"]]
    /\ UNCHANGED <<result, env, menu, quota, log, clock>>

\* a scheduled supabase_insert runs
RunInsert(r) ==
    /\ req[r].pc = "bg"
    /\ Len(req[r].ran) < Len(req[r].sched)
    /\ NextTask(r).op = "insert"
    /\ \E outcome \in supabase_insert :
          /\ store' = IF Stored(outcome)
                      THEN [store EXCEPT ![NextTask(r).table] = Append(@, NextTask(r).row)]
                      ELSE store
          /\ req' = [req EXCEPT ![r] = Ran(req[r], outcome)]
    /\ UNCHANGED <<result, env, menu, quota, log, clock>>

\* what a run of send_telegram_message may end as
send_telegram_message(chat_id) ==
    IF ~env.token \/ chat_id = "" THEN {"not_sent"} ELSE {"sent", "send_failed"}

\* a scheduled send_telegram_message runs
RunSend(r) ==
    /\ req[r].pc = "bg"
    /\ Len(req[r].ran) < Len(req[r].sched)
    /\ NextTask(r).op = "send"
    /\ \E outcome \in send_telegram_message(req[r].msg.chat) :
          req' = [req EXCEPT ![r] = Ran(req[r], outcome)]
    /\ UNCHANGED <<result, env, menu, quota, store, log, clock>>

Next ==
    \E r \in Slots :
        \/ Receive(r)
        \/ LogWriteFinish(r)
        \/ SelectFinish(r)
        \/ RunInsert(r)
        \/ RunSend(r)

Spec == Init /\ [][Next]_vars

\* ------------------------------------------------------- GET /messages

\* the values of the limit parameter of the requests
LogLimits == {-1, 0, 1, 2, 200}

\* the first n rows
Take(rows, n) == SubSeq(rows, 1, IF Len(rows) < n THEN Len(rows) ELSE n)

\* get_messages with ORDER BY id ASC
get_messages_oldest_first(limit) ==
    IF limit < 0 THEN log ELSE Take(log, limit)

\* SELECT ... FROM messages ORDER BY id DESC LIMIT ?: the rows by descending id;
\* SQLite puts no upper bound on the rows when the limit is negative
get_messages(limit) ==
    IF limit < 0 THEN Reversed(log) ELSE Take(Reversed(log), limit)

\* a GET /messages request is answered
GetMessages ==
    /\ \E limit \in LogLimits :
          result' = [op |-> "get_messages", limit |-> limit, rows |-> get_messages(limit)]
    /\ UNCHANGED <<env, menu, quota, store, log, clock, req>>

\* the webhook and the read endpoint side by side
InitLog ==
    /\ env \in Envs
    /\ menu = "log" /\ quota = MaxRequests
    /\ store = PreStore
    /\ log = <<>>
    /\ clock = PreExpenses + 1
    /\ req = [r \in Slots |-> IdleReq]
    /\ result = NoResult

NextLog ==
    \/ \E r \in Slots :
          \/ Receive(r)
          \/ LogWriteFinish(r)
          \/ SelectFinish(r)
          \/ RunInsert(r)
          \/ RunSend(r)
    \/ GetMessages

SpecLog == InitLog /\ [][NextLog]_vars

\* ------------------------------------------- the webhook, inputs recorded

\* Receive, with the secrets and the kind of body of the request written down
ReceiveObserved(r) ==
    /\ req[r].pc = "idle"
    /\ r <= quota
    /\ \A p \in Slots : p < r => req[p].pc # "idle"
    /\ \E sp \in SecretPairs, body \in Bodies, msg \in MenuOf(menu) :
          /\ Arrive(r, sp, body, msg)
          /\ result' = [op |-> "webhook", slot |-> r, query |-> sp[1], header |-> sp[2],
                        body |-> body]
    /\ UNCHANGED <<env, menu, quota, store, log, clock>>

NextAuth ==
    \E r \in Slots :
        \/ ReceiveObserved(r)
        \/ LogWriteFinish(r)
        \/ SelectFinish(r)
        \/ RunInsert(r)
        \/ RunSend(r)

SpecAuth == InitLog /\ [][NextAuth]_vars

\* ------------------------------------------------- parse_amount on its own

\* the longest raw text of the bounded inputs of parse_amount
ParseLen == 3

ParseAlphabet == {"5", "0", ".", ",", Glyph, "a", " ", "-"}

\* the texts of the docstring and of the usage messages, and None-like inputs
ParseExamples ==
    {<<"5", "0", "0", "0", "0">>, <<"5", "0", ",", "0", "0", "0">>,
     <<Glyph, "5", "0", ",", "0", "0", "0">>, <<"2", "5", "0">>, <<"a", "b", "c">>, <<>>}

ParseInputs ==
    UNION {[1..n -> ParseAlphabet] : n \in 0..ParseLen} \cup ParseExamples

\* a call parse_amount(raw) about to run
InitParse ==
    /\ env = [secret |-> <<>>, supabase |-> FALSE, token |-> FALSE]
    /\ menu = "none" /\ quota = 0
    /\ store = EmptyStore
    /\ log = <<>>
    /\ clock = 0
    /\ req = [r \in Slots |-> IdleReq]
    /\ result \in {[op |-> "parse_amount", raw |-> raw, done |-> FALSE, value |-> None] :
                      raw \in ParseInputs}

\* the call returns
ParseAmount ==
    /\ result.op = "parse_amount"
    /\ ~result.done
    /\ result' = [result EXCEPT !.done = TRUE, !.value = parse_amount(result.raw)]
    /\ UNCHANGED <<env, menu, quota, store, log, clock, req>>

NextParse == ParseAmount

SpecParse == InitParse /\ [][NextParse]_vars


\* ------------------------------------------------------------ the claims

\* the request was answered {"ok": True}
Answered(r) == req[r].status = 200

\* the request's text has a first token
HasCommand(r) == req[r].cmd # <<>>

CmdOf(r) == req[r].cmd
ArgsOf(r) == req[r].args

\* the replies and the inserts a request has scheduled
RepliesOf(r) == SelectSeq(req[r].sched, LAMBDA t : t.op = "send")
InsertsOf(r, tables) ==
    SelectSeq(req[r].sched, LAMBDA t : t.op = "insert" /\ t.table \in tables)

FinancialTables == {"incomes", "expenses", "budgets", "portfolios", "consents"}

\* the position of the amount among the arguments, and the least argument count
AmountArg(cmd) == IF cmd = CmdSetBudget THEN 2 ELSE 1
MinArgs(cmd) == IF cmd = CmdAddIncome THEN 1 ELSE 2

UsageTexts(cmd) ==
    IF cmd = CmdAddIncome
    THEN {"Usage: /addincome <amount> [frequency] [description]",
          "Could not parse amount. Usage: /addincome 50000 monthly salary"}
    ELSE IF cmd = CmdAddExpense
    THEN {"Usage: /addexpense <amount> <category> [note]",
          "Could not parse amount. Usage: /addexpense 250 food lunch"}
    ELSE {"Usage: /setbudget <category> <monthly_limit>",
          "Could not parse limit amount. Example: /setbudget food 5000"}

BadAmountArgs(r) ==
    /\ HasCommand(r)
    /\ CmdOf(r) \in {CmdAddIncome, CmdAddExpense, CmdSetBudget}
    /\ \/ Len(ArgsOf(r)) < MinArgs(CmdOf(r))
       \/ parse_amount(ArgsOf(r)[AmountArg(CmdOf(r))]) = None

\* C1: a /addincome, /addexpense or /setbudget with too few arguments or an
\* amount that does not parse is answered with one usage reply, and the request
\* schedules no insert into incomes, expenses or budgets
C1_UsageNoWrite ==
    \A r \in Slots :
        (req[r].pc \notin {"idle", "await_log"} /\ req[r].status \notin {403, 500} /\ BadAmountArgs(r)) =>
            /\ Answered(r)
            /\ Len(RepliesOf(r)) = 1
            /\ RepliesOf(r)[1].text \in UsageTexts(CmdOf(r))
            /\ InsertsOf(r, {"incomes", "expenses", "budgets"}) = <<>>

\* C1's case: a /setbudget with both arguments was rejected because its limit
\* does not parse
C1_Witness ==
    \E r \in Slots :
        /\ Answered(r) /\ BadAmountArgs(r)
        /\ CmdOf(r) = CmdSetBudget
        /\ Len(ArgsOf(r)) = 2
        /\ RepliesOf(r)[1].text = "Could not parse limit amount. Example: /setbudget food 5000"

\* C2: a request that has not been answered yet is never waiting for the local
\* log write, a remote insert or a reply send to finish
C2_AckWaitsForNoBackgroundOp ==
    \A r \in Slots :
        (req[r].pc # "idle" /\ req[r].status = 0) => req[r].pc # "await_log"

\* the handler body raised: it was given a malformed record
Raised(r) == \E i \in DOMAIN req[r].sel : req[r].sel[i].bad

\* C3: when the handler of a command raises, the request is still answered
\* {"ok": True} and schedules exactly one reply, the generic error reply
C3_ExceptionBecomesErrorReply ==
    \A r \in Slots :
        (req[r].pc \in {"bg", "done"} /\ req[r].status \notin {403, 500} /\ Raised(r)) =>
            /\ Answered(r)
            /\ RepliesOf(r) = <<ErrorReply>>

\* C3's case: a read command got a malformed record from the store, raised, and
\* the error reply was handed to the delivery client
C3_Witness ==
    \E r \in Slots :
        /\ req[r].pc = "done" /\ Answered(r) /\ Raised(r)
        /\ Dispatch(CmdOf(r), ArgsOf(r), SenderId(req[r].msg), req[r].sel, req[r].now).out = "raise"
        /\ RepliesOf(r) = <<ErrorReply>>
        /\ req[r].ran[Len(req[r].ran)] = "sent"

\* a write command whose arguments pass the handler's validation
ValidWrite(r) ==
    /\ HasCommand(r)
    /\ \/ /\ CmdOf(r) \in {CmdAddIncome, CmdAddExpense, CmdSetBudget}
          /\ Len(ArgsOf(r)) >= MinArgs(CmdOf(r))
          /\ parse_amount(ArgsOf(r)[AmountArg(CmdOf(r))]) # None
       \/ /\ CmdOf(r) = CmdConsent
          /\ Len(ArgsOf(r)) >= 1
          /\ Lower(ArgsOf(r)[1]) \in ConsentYes \cup ConsentNo

\* the confirmation a valid write command is due
ConfirmationOf(r) ==
    LET cmd == CmdOf(r)
        args == ArgsOf(r)
    IN  IF cmd = CmdAddIncome
        THEN Reply("Added income {} ({})",
                   <<format_currency(parse_amount(args[1])),
                     IF Len(args) >= 2 THEN args[2] ELSE Monthly>>)
        ELSE IF cmd = CmdAddExpense
        THEN Reply("Added expense {} ({})", <<format_currency(parse_amount(args[1])), args[2]>>)
        ELSE IF cmd = CmdSetBudget
        THEN Reply("Set budget for {} = {} / month",
                   <<args[1], format_currency(parse_amount(args[2]))>>)
        ELSE Reply("Consent set to: {}",
                   <<IF Lower(args[1]) \in ConsentYes THEN "True" ELSE "False">>)

\* C4: a valid write command is answered {"ok": True} with its confirmation as
\* the one reply, and once its insert has run, whatever the outcome, that reply is
\* still due or was handed to the delivery client: the insert's failure neither
\* changes nor drops it
C4_InsertOutcomeNeverChangesReply ==
    \A r \in Slots :
        (req[r].pc \in {"bg", "done"} /\ req[r].status \notin {403, 500} /\ ValidWrite(r)) =>
            /\ Answered(r)
            /\ RepliesOf(r) = <<ConfirmationOf(r)>>
            /\ Len(req[r].sched) = 3
            /\ req[r].sched[3] = ConfirmationOf(r)
            /\ req[r].pc = "done" => Len(req[r].ran) = 3

\* C4's case: the insert of a valid /addincome failed and the confirmation was
\* sent all the same
C4_Witness ==
    \E r \in Slots :
        /\ ValidWrite(r) /\ CmdOf(r) = CmdAddIncome
        /\ req[r].pc = "done"
        /\ req[r].ran = <<"stored", "not_stored", "sent">>
        /\ RepliesOf(r) = <<ConfirmationOf(r)>>


ReadCommands == {CmdIncome, CmdExpense, CmdBudget, CmdPortfolio, CmdStats, CmdExport}

NoneFoundTexts ==
    {"No incomes found. Add one with /addincome <amount> monthly salary",
     "No expenses recorded. Add one with /addexpense 250 food lunch",
     "No budgets set. Use /setbudget <category> <limit>",
     "No portfolios stored. Add via the app dashboard.",
     "No income recorded. Add one with /addincome <amount> monthly salary"}

\* the select failed: the store not configured, a status other than 200, an exception
Failed(res) == res.how \in {"unconfigured", "error"}

\* the select results with every failed one replaced by the answer of a store
\* that holds no matching record
AsAbsent(sel) ==
    [i \in DOMAIN sel |->
        IF Failed(sel[i]) THEN [how |-> "ok", bad |-> FALSE, rows |-> <<>>] ELSE sel[i]]

\* a read command was answered after one of its selects failed
ReadAfterFailure(r) ==
    /\ Answered(r)
    /\ CmdOf(r) \in ReadCommands
    /\ \E i \in DOMAIN req[r].sel : Failed(req[r].sel[i])

\* C5 as claimed: after a failed select every read command replies with a "none
\* found" message
C5_FailureRepliesNoneFound ==
    \A r \in Slots :
        ReadAfterFailure(r) =>
            /\ Len(RepliesOf(r)) = 1
            /\ RepliesOf(r)[1].text \in NoneFoundTexts

\* C5 as amended: a failed select gives the handler an empty sequence and nothing
\* is raised; the reply is the one a store without matching records gives, which
\* is a "none found" message for /income, /expense and /portfolio and for /budget
\* and /stats when their first select failed
C5_FailureRepliesAsAbsent ==
    \A r \in Slots :
        ReadAfterFailure(r) =>
            /\ \A i \in DOMAIN req[r].sel : Failed(req[r].sel[i]) => req[r].sel[i].rows = <<>>
            /\ (\A i \in DOMAIN req[r].sel : ~req[r].sel[i].bad) =>
                   RepliesOf(r) # <<ErrorReply>>
            /\ RepliesOf(r) =
                   Router(CmdOf(r), ArgsOf(r), SenderId(req[r].msg), AsAbsent(req[r].sel),
                          req[r].now).tasks
            /\ (/\ \A i \in DOMAIN req[r].sel : ~req[r].sel[i].bad
                /\ CmdOf(r) # CmdExport
                /\ Failed(req[r].sel[1])) =>
                   RepliesOf(r)[1].text \in NoneFoundTexts

\* C5's case: the select of /expense failed for a sender who has expenses in the
\* store, and the reply is the "none recorded" one
C5_Witness ==
    \E r \in Slots :
        /\ ReadAfterFailure(r) /\ CmdOf(r) = CmdExpense
        /\ req[r].sel[1].how = "error"
        /\ \E i \in DOMAIN store["expenses"] :
              store["expenses"][i].telegram_id = SenderId(req[r].msg)
        /\ RepliesOf(r)[1].text = "No expenses recorded. Add one with /addexpense 250 food lunch"

\* the inbound payload carries no message text
NoInboundText(r) ==
    ~req[r].msg.text.has \/ (req[r].msg.text.str /\ req[r].msg.text.chars = <<>>)

\* C6: a payload without message text is answered {"ok": True} and no reply is
\* scheduled for it
C6_NoTextNoReply ==
    \A r \in Slots :
        (req[r].pc \in {"bg", "done"} /\ req[r].status \notin {403, 500} /\ NoInboundText(r)) =>
            /\ Answered(r)
            /\ RepliesOf(r) = <<>>

\* the first token of the text the message carries, lower-cased
FirstTokenLower(r) == Lower(Split(Strip(req[r].msg.text.chars))[1])

\* C7: a text whose first token, lower-cased, is none of the thirteen commands
\* gets the "not recognized" reply, issues no select and schedules no insert
\* into a financial collection
C7_FallbackNoSideEffects ==
    \A r \in Slots :
        (req[r].pc \notin {"idle", "await_log"} /\ req[r].status \notin {403, 500}
         /\ HasCommand(r) /\ CmdOf(r) \notin KnownCommands) =>
            /\ Answered(r)
            /\ RepliesOf(r) = <<NotRecognizedReply>>
            /\ req[r].sel = <<>>
            /\ InsertsOf(r, FinancialTables) = <<>>
            /\ (~NoInboundText(r) /\ req[r].msg.text.str /\ req[r].ran = <<>>) =>
                   CmdOf(r) = FirstTokenLower(r)

\* C7's case: "/foo 250" was answered with the fallback reply and only the
\* message-log insert
C7_Witness ==
    \E r \in Slots :
        /\ req[r].pc = "done" /\ Answered(r)
        /\ req[r].msg = U1(TxUnknownCmd)
        /\ CmdOf(r) \notin KnownCommands
        /\ RepliesOf(r) = <<NotRecognizedReply>>
        /\ Len(req[r].sched) = 2

AcceptedYes == {<<"y", "e", "s">>, <<"y">>, <<"1">>, <<"t", "r", "u", "e">>}
AcceptedNo == {<<"n", "o">>, <<"n">>, <<"0">>, <<"f", "a", "l", "s", "e">>}

ConsentOption(r) == IF ArgsOf(r) = <<>> THEN <<>> ELSE Lower(ArgsOf(r)[1])

ConsentUsage == "Usage: /consent yes|no\nExample: /consent yes (to allow detailed AI advice)"

\* C8: /consent schedules one ConsentRecord with consented = true exactly for
\* yes/y/1/true and one with consented = false exactly for no/n/0/false (in any
\* case of the letters); any other argument, or none, gets the usage reply and no
\* ConsentRecord
C8_ConsentTokens ==
    \A r \in Slots :
        (req[r].pc \notin {"idle", "await_log"} /\ req[r].status \notin {403, 500}
         /\ CmdOf(r) = CmdConsent) =>
            LET writes == InsertsOf(r, {"consents"})
            IN  /\ Answered(r)
                /\ ConsentOption(r) \in AcceptedYes =>
                       /\ Len(writes) = 1
                       /\ writes[1].row.consented = TRUE
                       /\ writes[1].row.telegram_id = SenderId(req[r].msg)
                /\ ConsentOption(r) \in AcceptedNo =>
                       /\ Len(writes) = 1
                       /\ writes[1].row.consented = FALSE
                       /\ writes[1].row.telegram_id = SenderId(req[r].msg)
                /\ ConsentOption(r) \notin AcceptedYes \cup AcceptedNo =>
                       /\ writes = <<>>
                       /\ Len(RepliesOf(r)) = 1
                       /\ RepliesOf(r)[1].text = ConsentUsage

\* C8's case: "/consent YES" stored a record with consented = true
C8_Witness ==
    \E r \in Slots :
        /\ req[r].msg = U1(TxConsentYES)
        /\ req[r].pc = "done"
        /\ req[r].ran[2] = "stored"
        /\ \E i \in DOMAIN store["consents"] :
              /\ store["consents"][i].consented = TRUE
              /\ store["consents"][i].telegram_id = "u1"

\* the line of the /expense reply for the record a valid /addexpense writes
ExpenseLine(r) ==
    <<format_currency(parse_amount(ArgsOf(r)[1])), ArgsOf(r)[2],
      IF Len(ArgsOf(r)) >= 3 THEN JoinSpace(SubSeq(ArgsOf(r), 3, Len(ArgsOf(r)))) ELSE <<>>>>

\* the one reply of the request is the expense list and has the line
ShowsLine(rq, line) ==
    LET replies == SelectSeq(rq.sched, LAMBDA t : t.op = "send")
    IN  /\ Len(replies) = 1
        /\ replies[1].text = "Recent expenses:\n{lines}\n\nTotal (last {}): {}"
        /\ \E i \in DOMAIN replies[1].a[1] : replies[1].a[1][i] = line

\* r2 is a /expense that arrived after the valid /addexpense r1 of the same sender
\* was answered
ExpenseAfterAdd(r1, r2) ==
    /\ r1 \in req[r2].after
    /\ ValidWrite(r1) /\ CmdOf(r1) = CmdAddExpense
    /\ CmdOf(r2) = CmdExpense
    /\ SenderId(req[r1].msg) = SenderId(req[r2].msg)

\* the insert of the request's record has not failed: it is pending or stored
InsertNotFailed(r) == Len(req[r].ran) >= 2 => req[r].ran[2] = "stored"

\* the insert of the request's record has stored it
InsertStored(r) == Len(req[r].ran) >= 2 /\ req[r].ran[2] = "stored"

\* the number of expense records of the sender in the store
ExpensesOf(sender) ==
    Len(SelectSeq(store["expenses"], LAMBDA row : row.telegram_id = sender))

C10_ListsMostRecent ==
    [][\A r \in Slots :
          (/\ req[r].pc = "await_select"
           /\ CmdOf(r) = CmdExpense
           /\ req'[r].pc = "bg"
           /\ req'[r].sel[1].how = "ok") =>
              LET mine == Matching(req[r].q)
                  listed == req'[r].sel[1].rows
                  IsListed(row) ==
                      \E i \in DOMAIN listed : listed[i] = Project(row, req[r].q.cols)
                  replies == SelectSeq(req'[r].sched, LAMBDA t : t.op = "send")
              IN  /\ Len(listed) = IF Len(mine) < ExpenseLimit THEN Len(mine)
                                   ELSE ExpenseLimit
                  /\ \A j \in DOMAIN mine, k \in DOMAIN mine :
                        (IsListed(mine[j]) /\ ~IsListed(mine[k])) =>
                            mine[j].created_at >= mine[k].created_at
                  /\ listed # <<>> =>
                        replies[1].a[3] = format_currency(SumAmounts(listed))]_vars

\* floor(a / b * 100) for b > 0, in exact arithmetic
ExactPercent(a, b) ==
    LET e == IF a.e > b.e THEN a.e ELSE b.e
    IN  (a.m * Pow10(e - a.e) * 100) \div (b.m * Pow10(e - b.e))

\* the request r, suspended in the select number n of the command cmd, gets an
\* answer of the store in this step and is acknowledged
LastSelectAnswered(r, cmd, n) ==
    /\ req[r].pc = "await_select"
    /\ CmdOf(r) = cmd
    /\ Len(req[r].sel) = n - 1
    /\ \A i \in DOMAIN req[r].sel : req[r].sel[i].how = "ok"
    /\ req'[r].pc = "bg"
    /\ req'[r].sel[n].how = "ok"

\* the expenses of a sender in the store, of one category, created at or after t
ExpensesSince(sender, cat, t) ==
    SelectSeq(store["expenses"],
              LAMBDA row : /\ row.telegram_id = sender
                           /\ row.category = cat
                           /\ row.created_at >= t)

\* C11: the reply to /budget has one line per budget fetched for the sender, with
\* usage = the sum of the sender's expenses of that category created since the
\* start of the month, and utilization = floor(usage / limit * 100) when the limit
\* is positive and 0 otherwise
C11_BudgetUtilization ==
    [][\A r \in Slots :
          LastSelectAnswered(r, CmdBudget, 2) =>
              LET budgets == req[r].sel[1].rows
                  sender  == SenderId(req[r].msg)
                  Usage(b) == SumAmounts(ExpensesSince(sender, b.category,
                                                       MonthStart(req[r].now)))
                  replies == SelectSeq(req'[r].sched, LAMBDA t : t.op = "send")
              IN  /\ Len(replies) = 1
                  /\ replies[1].text = "Budgets:\n{lines}"
                  /\ replies[1].a[1] =
                        [i \in DOMAIN budgets |->
                            <<budgets[i].category,
                              format_currency(Usage(budgets[i])),
                              format_currency(budgets[i].monthly_limit),
                              IF budgets[i].monthly_limit.m > 0
                              THEN ExactPercent(Usage(budgets[i]), budgets[i].monthly_limit)
                              ELSE 0>>]]_vars

\* the records of a sender in a collection of the store
RecordsOf(table, sender) ==
    SelectSeq(store[table], LAMBDA row : row.telegram_id = sender)

\* C12: /stats replies with the prompt to add income when the sender's total
\* income is zero; otherwise it reports savings = max(income - expenses, 0) and
\* the rate floor(savings / income * 100), which lies between 0 and 100
C12_SavingsRate ==
    [][\A r \in Slots :
          LastSelectAnswered(r, CmdStats, 2) =>
              LET income   == SumAmounts(req[r].sel[1].rows)
                  expenses == SumAmounts(RecordsOf("expenses", SenderId(req[r].msg)))
                  savings  == DecSubFloor(income, expenses)
                  replies  == SelectSeq(req'[r].sched, LAMBDA t : t.op = "send")
              IN  /\ Len(replies) = 1
                  /\ income = DecZero =>
                        replies[1].text =
                            "No income recorded. Add one with /addincome <amount> monthly salary"
                  /\ income # DecZero =>
                        /\ replies[1].a = <<format_currency(savings),
                                            ExactPercent(savings, income)>>
                        /\ replies[1].a[2] \in 0..100]_vars

\* r1 and r2 are two answered /income requests of one sender
TwoIncomeCalls(r1, r2) ==
    /\ r1 # r2
    /\ Answered(r1) /\ Answered(r2)
    /\ CmdOf(r1) = CmdIncome /\ CmdOf(r2) = CmdIncome
    /\ SenderId(req[r1].msg) = SenderId(req[r2].msg)

\* no insert into the incomes collection has taken effect
NoIncomeWritten ==
    \A r \in Slots : \A i \in DOMAIN req[r].ran :
        (req[r].sched[i].op = "insert" /\ req[r].sched[i].table = "incomes") =>
            req[r].ran[i] # "stored"

CollectionOf(cmd) ==
    IF cmd = CmdAddIncome THEN "incomes"
    ELSE IF cmd = CmdAddExpense THEN "expenses"
    ELSE IF cmd = CmdSetBudget THEN "budgets"
    ELSE "consents"

\* the step ran an insert of request r that the store accepted
InsertStoredNow(r) ==
    /\ Len(req'[r].ran) = Len(req[r].ran) + 1
    /\ req[r].sched[Len(req[r].ran) + 1].op = "insert"
    /\ req'[r].ran[Len(req'[r].ran)] = "stored"

\* C14: a valid write command schedules exactly one insert into a financial
\* collection, a record for its own collection; and every step leaves each
\* collection as it was or adds, after the records it holds, the one record of
\* an insert that ran in that step: no record is changed, removed or replaced
C14_AppendOnly ==
    /\ [](\A r \in Slots :
             (req[r].pc \in {"bg", "done"} /\ Answered(r) /\ ValidWrite(r)) =>
                 /\ Len(InsertsOf(r, FinancialTables)) = 1
                 /\ InsertsOf(r, FinancialTables)[1].table = CollectionOf(req[r].cmd))
    /\ [][/\ \A t \in Tables :
                \/ store'[t] = store[t]
                \/ \E r \in Slots :
                      /\ InsertStoredNow(r)
                      /\ req[r].sched[Len(req[r].ran) + 1].table = t
                      /\ store'[t] = Append(store[t], req[r].sched[Len(req[r].ran) + 1].row)
          /\ \A r \in Slots :
                InsertStoredNow(r) =>
                    store'[req[r].sched[Len(req[r].ran) + 1].table] #
                        store[req[r].sched[Len(req[r].ran) + 1].table]]_vars

\* C14's case: u1 sent "/setbudget food 5000" twice, both inserts were stored, and
\* the budgets collection holds the earlier budget of u1 for food and the two new
\* records after it
C14_Witness ==
    \E r1 \in Slots, r2 \in Slots :
        /\ r1 # r2
        /\ req[r1].msg = U1(TxSetBudget) /\ req[r2].msg = U1(TxSetBudget)
        /\ InsertStored(r1) /\ InsertStored(r2)
        /\ Len(store["budgets"]) = Len(PreStore["budgets"]) + 2
        /\ SubSeq(store["budgets"], 1, Len(PreStore["budgets"])) = PreStore["budgets"]
        /\ Len(SelectSeq(store["budgets"],
                         LAMBDA b : b.telegram_id = "u1" /\ b.category = Food)) = 3

\* the row of the insert the step ran for request w
RowStoredNow(w) == req[w].sched[Len(req[w].ran) + 1]

\* C15: every record a request schedules for a financial collection carries the
\* sender id of that request, every select a request awaits is answered from
\* records that carry that sender id, and a record stored for one sender changes
\* nothing in the rows any select of another sender can be answered with: what a
\* read command replies depends on the sender's own records only
C15_PartitionedBySender ==
    /\ [](\A r \in Slots :
             /\ \A i \in DOMAIN req[r].sched :
                   (req[r].sched[i].op = "insert" /\ req[r].sched[i].table \in FinancialTables) =>
                       req[r].sched[i].row.telegram_id = SenderId(req[r].msg)
             /\ req[r].pc = "await_select" =>
                   \A i \in DOMAIN Matching(req[r].q) :
                       Matching(req[r].q)[i].telegram_id = SenderId(req[r].msg))
    /\ [][\A r \in Slots, w \in Slots :
             (/\ req[r].pc = "await_select"
              /\ InsertStoredNow(w)
              /\ RowStoredNow(w).table \in FinancialTables
              /\ RowStoredNow(w).row.telegram_id # SenderId(req[r].msg)) =>
                 /\ Matching(req[r].q)' = Matching(req[r].q)
                 /\ OkRows(req[r].q)' = OkRows(req[r].q)]_vars

CsvHeader == "type,amount,category_or_freq,note_or_desc,created_at"

\* the k-th line of the CSV of the fetched expenses and incomes
CsvLine(exps, incs, k) ==
    IF k = 1 THEN CsvHeader
    ELSE IF k - 1 <= Len(exps)
    THEN <<"expense", exps[k - 1].amount, exps[k - 1].category, exps[k - 1].note,
           exps[k - 1].created_at>>
    ELSE LET i == incs[k - 1 - Len(exps)]
         IN  <<"income", i.amount, i.frequency, i.description, i.created_at>>

\* C16: a /export whose two selects returned rows or nothing fetched at most 500
\* expenses and at most 500 incomes, and its one reply holds the first
\* min(10, 1 + expenses + incomes) lines of the CSV made of the header line, a line
\* per fetched expense and then a line per fetched income
C16_ExportPreview ==
    \A r \in Slots :
        (/\ req[r].cmd = CmdExport /\ Answered(r)
         /\ \A i \in DOMAIN req[r].sel : ~req[r].sel[i].bad) =>
            LET exps == req[r].sel[1].rows
                incs == req[r].sel[2].rows
                size == 1 + Len(exps) + Len(incs)
                preview == RepliesOf(r)[1].a[1]
            IN  /\ Len(req[r].sel) = 2
                /\ Len(exps) <= 500 /\ Len(incs) <= 500
                /\ Len(RepliesOf(r)) = 1
                /\ Len(preview) = (IF size < 10 THEN size ELSE 10)
                /\ \A k \in DOMAIN preview : preview[k] = CsvLine(exps, incs, k)

\* C16's case: the /export of u1 fetched five expenses and five incomes, a CSV of
\* eleven lines, and replied with ten lines
C16_Witness ==
    \E r \in Slots :
        /\ req[r].msg = U1(TxExport) /\ req[r].pc = "done"
        /\ Len(req[r].sel) = 2
        /\ Len(req[r].sel[1].rows) = PreExpenses /\ ~req[r].sel[1].bad
        /\ Len(req[r].sel[2].rows) = PreIncomes /\ ~req[r].sel[2].bad
        /\ Len(RepliesOf(r)[1].a[1]) = 10
        /\ RepliesOf(r)[1].a[1][10][1] = "income"

\* t has the shape digits[.digits]
Shape(t) ==
    /\ t # <<>>
    /\ \/ \A i \in DOMAIN t : t[i] \in Digit
       \/ \E k \in 2..(Len(t) - 1) :
             /\ t[k] = "."
             /\ \A i \in DOMAIN t : i # k => t[i] \in Digit

\* the number a text of that shape denotes
ShapeValue(t) ==
    LET dot == {k \in DOMAIN t : t[k] = "."}
        digits == SelectSeq(t, LAMBDA c : c # ".")
    IN  DecNorm([m |-> DigitsValue(digits),
                 e |-> IF dot = {} THEN 0 ELSE Len(t) - (CHOOSE k \in dot : TRUE)])

\* the places <<i, j>> of the substrings of s of that shape
Embedded(s) ==
    {p \in (DOMAIN s) \X (DOMAIN s) : p[1] <= p[2] /\ Shape(SubSeq(s, p[1], p[2]))}

\* the first of them: the leftmost, and the longest that starts there
FirstEmbedded(s) ==
    LET p == CHOOSE p \in Embedded(s) :
                 \A o \in Embedded(s) :
                     p[1] < o[1] \/ (p[1] = o[1] /\ p[2] >= o[2])
    IN  SubSeq(s, p[1], p[2])

\* what the contract of the parser gives for the text s that is left after the
\* removals
Contract(s) ==
    IF Shape(s) THEN ShapeValue(s)
    ELSE IF Embedded(s) # {} THEN ShapeValue(FirstEmbedded(s))
    ELSE None

\* the text without its surrounding whitespace
Trimmed(raw) ==
    IF \A i \in DOMAIN raw : raw[i] \in Whitespace THEN <<>>
    ELSE LET first == CHOOSE i \in DOMAIN raw :
                          raw[i] \notin Whitespace /\ \A j \in 1..(i - 1) : raw[j] \in Whitespace
             last == CHOOSE i \in DOMAIN raw :
                          raw[i] \notin Whitespace /\ \A j \in (i + 1)..Len(raw) : raw[j] \in Whitespace
         IN  SubSeq(raw, first, last)

Without(s, chars) == SelectSeq(s, LAMBDA c : c \notin chars)

\* the stated examples
ParserExamples ==
    /\ result.raw = <<"5", "0", "0", "0", "0">> => result.value = DecOfInt(50000)
    /\ result.raw = <<"5", "0", ",", "0", "0", "0">> => result.value = DecOfInt(50000)
    /\ result.raw = <<Glyph, "5", "0", ",", "0", "0", "0">> => result.value = DecOfInt(50000)
    /\ result.raw = <<"2", "5", "0">> => result.value = DecOfInt(250)
    /\ result.raw \in {<<>>, <<"a", "b", "c">>} => result.value = None

\* C17 as stated: with the surrounding whitespace stripped, a leading currency
\* glyph removed and the thousands separators removed, the parser returns the
\* value of the whole text when it is digits[.digits], else of the first embedded
\* digits[.digits], and no value exactly when there is none; a value is never
\* negative
C17_ParserLeadingGlyph ==
    (result.op = "parse_amount" /\ result.done) =>
        LET t == Trimmed(result.raw)
            s == Without(IF t # <<>> /\ t[1] = Glyph THEN Tail(t) ELSE t, {","})
        IN  /\ result.value = Contract(s)
            /\ result.value = None <=> Embedded(s) = {}
            /\ result.value # None => result.value.m >= 0
            /\ ParserExamples

\* C17, amended: the same with every currency glyph and every comma removed
C17_ParserContract ==
    (result.op = "parse_amount" /\ result.done) =>
        LET s == Without(Trimmed(result.raw), {Glyph, ","})
        IN  /\ result.value = Contract(s)
            /\ result.value = None <=> Embedded(s) = {}
            /\ result.value # None => result.value.m >= 0
            /\ ParserExamples

\* C17's case: the parser returned 50000 for "₹50,000"
C17_Witness ==
    /\ result.op = "parse_amount" /\ result.done
    /\ result.raw = <<Glyph, "5", "0", ",", "0", "0", "0">>
    /\ result.value = DecOfInt(50000)

\* every step leaves the entries of the log as they are, or adds entries after them
LogOnlyGrows ==
    /\ Len(log') >= Len(log)
    /\ \A i \in DOMAIN log : log'[i] = log[i]

\* the answer of the step holds the n entries appended last, the newest first
AnswersNewest(n) ==
    /\ Len(result'.rows) = n
    /\ \A k \in 1..n : result'.rows[k] = log[Len(log) + 1 - k]

C19_ExactlyOneReply ==
    \A r \in Slots :
        /\ Len(RepliesOf(r)) <= 1
        /\ req[r].pc \in {"idle", "await_log", "await_select"} => RepliesOf(r) = <<>>
        /\ (req[r].pc \in {"bg", "done"} /\ Answered(r) /\ HasCommand(r)) =>
               Len(RepliesOf(r)) = 1
        /\ \A i \in DOMAIN req[r].sched, j \in DOMAIN req[r].sched :
               (i < j /\ req[r].sched[i].op = "send") => req[r].sched[j] # ErrorReply

\* C19's case: /start and "/consent YES" of one conversation, an informational
\* and a successful command, each ended with its one reply sent
C19_Witness ==
    \E r1 \in Slots, r2 \in Slots :
        /\ req[r1].msg = U1(TxStart) /\ req[r1].pc = "done"
        /\ RepliesOf(r1) = <<StartReply>>
        /\ req[r1].ran[Len(req[r1].ran)] = "sent"
        /\ req[r2].msg = U1(TxConsentYES) /\ req[r2].pc = "done"
        /\ Len(RepliesOf(r2)) = 1
        /\ req[r2].ran[Len(req[r2].ran)] = "sent"

\* the commands that read or inform
ReadOrInfoCommands ==
    {CmdStart, CmdHelp, CmdIncome, CmdExpense, CmdBudget, CmdPortfolio, CmdStats, CmdLink,
     CmdExport}

\* the step ran a task of request r
TaskRanNow(r) == Len(req'[r].ran) = Len(req[r].ran) + 1

\* C20: a request of a read or informational command schedules one insert, the
\* one into the messages collection, and none into a financial collection; a step
\* that runs a task of such a request leaves the financial collections as they
\* were; and a request of any kind schedules at most one insert into a financial
\* collection
C20_ReadsLeaveCollections ==
    /\ [](\A r \in Slots :
             /\ Len(InsertsOf(r, FinancialTables)) <= 1
             /\ (req[r].pc \in {"await_select", "bg", "done"} /\ req[r].status \notin {403, 500}
                 /\ CmdOf(r) \in ReadOrInfoCommands) =>
                    /\ InsertsOf(r, FinancialTables) = <<>>
                    /\ Len(InsertsOf(r, Tables)) = 1
                    /\ InsertsOf(r, Tables)[1].table = "messages")
    /\ [][\A r \in Slots :
             (TaskRanNow(r) /\ CmdOf(r) \in ReadOrInfoCommands) =>
                 \A t \in FinancialTables : store'[t] = store[t]]_vars

\* C20's case: the /stats of u1 ran to its end, its log row stored in the messages
\* collection and its reply sent, with the financial collections as they were
C20_Witness ==
    \E r \in Slots :
        /\ req[r].msg = U1(TxStats) /\ req[r].pc = "done"
        /\ Len(req[r].sel) = 2
        /\ req[r].ran = <<"stored", "sent">>
        /\ Len(store["messages"]) = 1
        /\ \A t \in FinancialTables : store[t] = PreStore[t]

\* the step received the request of slot r
ReceivedNow(r) == req[r].pc = "idle" /\ req'[r].pc # "idle"

\* a secret is configured and neither secret of the request received equals it
BothSecretsFail ==
    /\ env.secret # <<>>
    /\ result'.query # env.secret
    /\ result'.header # env.secret

\* the request of slot r left no trace: no log entry, no select, no task, no
\* command taken from it
NoTrace(rq) ==
    /\ rq.pc = "done"
    /\ rq.logged = "none"
    /\ rq.sel = <<>> /\ rq.q = NoQuery
    /\ rq.sched = <<>> /\ rq.ran = <<>>
    /\ rq.cmd = <<>> /\ rq.args = <<>>

\* the entries of the log and the rows of the store are those of the requests
\* that wrote them: none comes from a request that was turned away
OnlyProcessedWrite ==
    /\ Len(log) = Cardinality({r \in Slots : req[r].logged = "ok"})
    /\ \A t \in Tables :
          Len(store[t]) - Len(PreStore[t]) =
              Cardinality({r \in Slots :
                              \E i \in DOMAIN req[r].ran :
                                  /\ req[r].ran[i] = "stored"
                                  /\ req[r].sched[i].table = t})

\* C21: with a secret configured, a request whose two secrets both fail to equal
\* it is answered 403 and the step changes nothing else; a request so answered
\* never gets a log entry, a select, a task or a reply; and a request is
\* processed only when one of its secrets equals the configured one
C21_RejectedWithoutEffect ==
    /\ [](/\ OnlyProcessedWrite
          /\ \A r \in Slots : req[r].status = 403 => NoTrace(req[r]))
    /\ [][\A r \in Slots :
             /\ (ReceivedNow(r) /\ BothSecretsFail) =>
                    /\ req'[r].status = 403
                    /\ log' = log /\ store' = store
             /\ (ReceivedNow(r) /\ env.secret # <<>> /\ req'[r].pc = "await_log") =>
                    (result'.query = env.secret \/ result'.header = env.secret)
             /\ req[r].status = 403 => req'[r] = req[r]]_vars

\* what holds of every request that fails the check: it is not processed and
\* leaves no trace, whether it ends 403 or, its body being no object, 500
C21_UnauthorizedWithoutEffect ==
    /\ [](/\ OnlyProcessedWrite
          /\ \A r \in Slots : req[r].status \in {403, 500} => NoTrace(req[r]))
    /\ [][\A r \in Slots :
             /\ (ReceivedNow(r) /\ BothSecretsFail) =>
                    /\ req'[r].status = (IF result'.body = "object" THEN 403 ELSE 500)
                    /\ log' = log /\ store' = store
             /\ (ReceivedNow(r) /\ env.secret # <<>> /\ req'[r].pc = "await_log") =>
                    (result'.query = env.secret \/ result'.header = env.secret)
             /\ req[r].status \in {403, 500} => req'[r] = req[r]]_vars

\* the case of the check: after a processed request wrote the log, a request with
\* two wrong secrets and an object as body was answered 403, the log as it was
C21_Rejected ==
    /\ env.secret # <<>>
    /\ result.op = "webhook" /\ result.slot = 2 /\ result.body = "object"
    /\ result.query = Wrong /\ result.header = Wrong
    /\ req[2].status = 403
    /\ req[1].pc = "done" /\ req[1].status = 200
    /\ Len(log) = 1

====
